---- MODULE Spec2Model ----
(***************************************************************************)
(* Evidence retrieval and assembly engine of finance-lab-project-v2:       *)
(*   - select_consecutive_pages   (src/src/extraction_logic.py)            *)
(*   - investor merge / dedup     (src/src/extraction_logic.py)            *)
(*   - Evaluator.detect_conflicts (src/tests/evaluator.py)                 *)
(*   - PDFIndexer                 (src/src/pdf_indexer.py)                 *)
(*   - PDFIndexer._chunk_text     (src/src/pdf_indexer.py)                 *)
(*   - extract_from_pdf           (src/src/extraction_logic.py)            *)
(* Each component has its own specification; the variables of the other    *)
(* components stay at their initial values.                                *)
(***************************************************************************)
EXTENDS Integers, Sequences, FiniteSets, TLC

VARIABLES
    results,      \* ranked hit list handed to select_consecutive_pages
    max_pages,    \* the cap argument of select_consecutive_pages
    window,       \* the list returned by select_consecutive_pages
    sel_pc,       \* "ready" before the call, "done" after it
    merge_input,  \* list of raw investor items handed to the merge
    merged,       \* list of investors the merge keeps
    merge_pc,     \* "ready", or the name of the merge that has run
    final_output, \* the file at final_output_path: one object per document
    ai_data_full, \* the merged output file: one entry per document, in order
    conflicts,    \* what detect_conflicts returns: reported key -> instances
    conf_pc,      \* "ready" before detect_conflicts, "done" after it
    index,        \* PDFIndexer.index: the stored vectors, by row id
    metadata,     \* PDFIndexer.metadata: the chunk records
    index_file,   \* the persisted <index_path>.index
    metadata_file,\* the persisted <index_path>.metadata
    last_call,    \* the last PDFIndexer operation and its outcome
    reset_pending,\* reset_index has run and no build has succeeded since
    page_text,    \* the text handed to _chunk_text
    chunk_size,   \* PDFIndexer.chunk_size
    chunk_overlap,\* PDFIndexer.chunk_overlap
    tokens,       \* _chunk_text: tokenizer.encode(text)
    token_chunks, \* _chunk_text: the token_chunk of every chunk appended
    start_index,  \* _chunk_text: the loop variable
    chunk_pc,     \* _chunk_text: "ready", "loop" or "done"
    pdf_path,     \* the document extract_from_pdf is called for
    extracted,    \* what extract_from_pdf did and returned
    run           \* run_single_extraction: its arguments, loop position,
                  \* the documents tried and temp_output_files

selVars == <<results, max_pages, window, sel_pc>>

mergeVars == <<merge_input, merged, merge_pc, final_output>>

confVars == <<ai_data_full, conflicts, conf_pc>>

idxVars ==
    <<index, metadata, index_file, metadata_file, last_call, reset_pending>>

chunkVars ==
    <<page_text, chunk_size, chunk_overlap, tokens, token_chunks,
      start_index, chunk_pc>>

extractVars == <<pdf_path, extracted, run>>

vars == <<results, max_pages, window, sel_pc, merge_input, merged, merge_pc,
          final_output,
          ai_data_full, conflicts, conf_pc,
          index, metadata, index_file, metadata_file, last_call,
          reset_pending,
          page_text, chunk_size, chunk_overlap, tokens, token_chunks,
          start_index, chunk_pc, pdf_path, extracted, run>>

(***************************************************************************)
(* Bounds                                                                  *)
(***************************************************************************)
MaxTextLen == 4   \* texts handed to _chunk_text have 0..MaxTextLen characters
MaxChunkSize == 3 \* chunk_size is drawn from 1..MaxChunkSize, chunk_overlap from 0..
MaxChunks == 3    \* passes followed of a _chunk_text loop that cannot end
MaxTopK == 2      \* top_k of a query is drawn from 1..MaxTopK
MaxPage == 5      \* page numbers of hits are drawn from 1..MaxPage
MaxHits == 3      \* length of a generated hit list
MaxCap  == 5      \* max_pages is drawn from 1..MaxCap
MaxInvestors == 3 \* length of a list of investor items
MaxDocs == 2      \* number of documents in a merged output file
MaxMetadata == 3  \* index_pdf is not called once metadata is longer than this
MaxMerges == 3    \* calls of merge_and_finalize_outputs on one final output file

\* Distances in hundredths: 100 is the top distance, 105 is exactly on the
\* 5% tolerance, 106 is just beyond it.
Dists == {100, 105, 106}

(***************************************************************************)
(* Small helpers                                                           *)
(***************************************************************************)
Range(s) == {s[i] : i \in 1..Len(s)}

SetMax(S) == CHOOSE x \in S : \A y \in S : y <= x

(***************************************************************************)
(* select_consecutive_pages                                                *)
(***************************************************************************)
DEFAULT_MAX_PAGES == 4

\* SIMILARITY_DISTANCE_THRESHOLD = 1.05, in hundredths
SIMILARITY_DISTANCE_THRESHOLD == 105

\* float('inf') of the synthetic entry
INF_DISTANCE == 1000000

Hit == [page_number : 1..MaxPage, distance : Dists]

\* `current_page in results_by_page`
InResultsByPage(res, p) == \E i \in 1..Len(res) : res[i].page_number = p

\* results_by_page[p]: the dict comprehension keeps the last hit of a page
ResultsByPage(res, p) ==
    res[SetMax({i \in 1..Len(res) : res[i].page_number = p})]

SyntheticPage(p) == [page_number |-> p, distance |-> INF_DISTANCE]

\* lines 56-65: the top hit, plus the second hit when it is close enough
SeedWithSecondStrict(res, cap) ==
    LET top == res[1]
        pages_to_extract == <<top>>
    IN  IF /\ Len(res) > 1
           /\ Len(pages_to_extract) < cap
           /\ res[2].distance * 100 < top.distance * SIMILARITY_DISTANCE_THRESHOLD
           /\ res[2].page_number # top.page_number
        THEN Append(pages_to_extract, res[2])
        ELSE pages_to_extract

SeedWithSecond(res, cap) ==
    LET top == res[1]
        pages_to_extract == <<top>>
    IN  IF /\ Len(res) > 1
           /\ Len(pages_to_extract) < cap
           /\ res[2].distance * 100 <= top.distance * SIMILARITY_DISTANCE_THRESHOLD
           /\ res[2].page_number # top.page_number
        THEN Append(pages_to_extract, res[2])
        ELSE pages_to_extract

\* lines 71-78: always include the page right after the top hit
ForwardFirstOnlyHits(pte, res, cap, current_page) ==
    IF Len(pte) < cap /\ InResultsByPage(res, current_page)
    THEN Append(pte, ResultsByPage(res, current_page))
    ELSE pte

ForwardFirstUncapped(pte, res, cap, current_page) ==
    IF InResultsByPage(res, current_page)
    THEN Append(pte, ResultsByPage(res, current_page))
    ELSE Append(pte, SyntheticPage(current_page))

ForwardFirst(pte, res, cap, current_page) ==
    IF Len(pte) < cap
    THEN IF InResultsByPage(res, current_page)
         THEN Append(pte, ResultsByPage(res, current_page))
         ELSE Append(pte, SyntheticPage(current_page))
    ELSE pte

\* lines 80-83: continue forward through pages present among the hits
ForwardLoopNone(pte, res, cap, current_page) == pte

RECURSIVE ForwardLoop(_, _, _, _)
ForwardLoop(pte, res, cap, current_page) ==
    IF InResultsByPage(res, current_page) /\ Len(pte) < cap
    THEN ForwardLoop(Append(pte, ResultsByPage(res, current_page)), res, cap,
                     current_page + 1)
    ELSE pte

\* lines 86-89: look backward through pages present among the hits
BackwardLoopBackfill(pte, res, cap, current_page) ==
    IF Len(pte) < cap THEN Append(pte, SyntheticPage(current_page)) ELSE pte

RECURSIVE BackwardLoop(_, _, _, _)
BackwardLoop(pte, res, cap, current_page) ==
    IF current_page > 0 /\ InResultsByPage(res, current_page) /\ Len(pte) < cap
    THEN BackwardLoop(Append(pte, ResultsByPage(res, current_page)), res, cap,
                      current_page - 1)
    ELSE pte

\* lines 92-97: remove duplicates by page number, first occurrence wins
UniquePagesKeepAll(pte) == pte

RECURSIVE UniquePages(_)
UniquePages(pte) ==
    IF pte = <<>> THEN <<>>
    ELSE LET unique_pages == UniquePages(SubSeq(pte, 1, Len(pte) - 1))
             page == pte[Len(pte)]
         IN  IF \E i \in 1..Len(unique_pages) :
                    unique_pages[i].page_number = page.page_number
             THEN unique_pages
             ELSE Append(unique_pages, page)

\* line 100: list.sort(key=page_number), a stable ascending sort
RECURSIVE InsertByPage(_, _)
InsertByPage(sorted, e) ==
    IF sorted = <<>> THEN <<e>>
    ELSE IF sorted[Len(sorted)].page_number <= e.page_number
         THEN Append(sorted, e)
         ELSE Append(InsertByPage(SubSeq(sorted, 1, Len(sorted) - 1), e),
                     sorted[Len(sorted)])

RECURSIVE SortByPage(_)
SortByPage(s) ==
    IF s = <<>> THEN <<>>
    ELSE InsertByPage(SortByPage(SubSeq(s, 1, Len(s) - 1)), s[Len(s)])

select_consecutive_pages(res, cap) ==
    IF res = <<>> THEN <<>>
    ELSE LET top    == res[1]
             seeded == SeedWithSecond(res, cap)
             first  == ForwardFirst(seeded, res, cap, top.page_number + 1)
             fwd    == ForwardLoop(first, res, cap, top.page_number + 2)
             bwd    == BackwardLoop(fwd, res, cap, top.page_number - 1)
             sorted == SortByPage(UniquePages(bwd))
         IN  [i \in 1..Len(sorted) |-> sorted[i].page_number]

\* Ranked hit lists: query returns hits in ascending distance
IsRanked(res) ==
    \A i \in 1..(Len(res) - 1) : res[i].distance <= res[i + 1].distance

HitLists ==
    {res \in UNION {[1..n -> Hit] : n \in 0..MaxHits} : IsRanked(res)}

\* The scenario of the specification's testable properties:
\* (page 5, 1.0), (page 6, 1.02), (page 7, 1.2), (page 9, 1.3)
ScenarioHits ==
    << [page_number |-> 5, distance |-> 100],
       [page_number |-> 6, distance |-> 102],
       [page_number |-> 7, distance |-> 120],
       [page_number |-> 9, distance |-> 130] >>

SelectIdle ==
    /\ results = <<>>
    /\ max_pages = DEFAULT_MAX_PAGES
    /\ window = <<>>
    /\ sel_pc = "idle"

MergeIdle ==
    /\ merge_input = <<>>
    /\ merged = <<>>
    /\ merge_pc = "idle"
    /\ final_output = [exists |-> FALSE, content |-> <<>>]

ConflictIdle ==
    /\ ai_data_full = <<>>
    /\ conflicts = <<>>
    /\ conf_pc = "idle"

NoFile == [exists |-> FALSE, readable |-> FALSE, content |-> <<>>]

IndexerIdle ==
    /\ index = <<>>
    /\ metadata = <<>>
    /\ index_file = NoFile
    /\ metadata_file = NoFile
    /\ last_call = [op |-> "idle"]
    /\ reset_pending = FALSE

ChunkerIdle ==
    /\ page_text = <<>>
    /\ chunk_size = 0
    /\ chunk_overlap = 0
    /\ tokens = <<>>
    /\ token_chunks = <<>>
    /\ start_index = 0
    /\ chunk_pc = "idle"

ExtractIdle ==
    /\ pdf_path = ""
    /\ extracted = [outcome |-> "idle"]
    /\ run = [status |-> "idle"]

InitSelect ==
    /\ results \in HitLists \cup {ScenarioHits}
    /\ max_pages \in 1..MaxCap
    /\ window = <<>>
    /\ sel_pc = "ready"
    /\ MergeIdle
    /\ ConflictIdle
    /\ IndexerIdle
    /\ ChunkerIdle
    /\ ExtractIdle

SelectCall ==
    /\ sel_pc = "ready"
    /\ window' = select_consecutive_pages(results, max_pages)
    /\ sel_pc' = "done"
    /\ UNCHANGED <<results, max_pages>>
    /\ UNCHANGED <<mergeVars, confVars, idxVars, chunkVars, extractVars>>

NextSelect == SelectCall

SpecSelect == InitSelect /\ [][NextSelect]_vars

(***************************************************************************)
(* Properties of select_consecutive_pages                                  *)
(***************************************************************************)
SelDone == sel_pc = "done" /\ results # <<>>

Anchor == results[1].page_number

InWindow(p) == \E i \in 1..Len(window) : window[i] = p

\* C1: for every non-empty hit list the returned page list is one contiguous
\* range: each page after the first equals its predecessor plus 1 (stated for
\* the default cap, the way extract_from_pdf calls the function).
C1_WindowContiguous ==
    (SelDone /\ max_pages = DEFAULT_MAX_PAGES) => \A i \in 1..(Len(window) - 1) : window[i + 1] = window[i] + 1

\* C2: with the default cap (max_pages = 4) the window of a non-empty hit
\* list contains the top hit's page and the page right after it, whether or
\* not that next page is among the hits.
C2_DefaultCapAnchorAndNext ==
    (SelDone /\ max_pages = DEFAULT_MAX_PAGES)
        => (InWindow(Anchor) /\ InWindow(Anchor + 1))

C2_Witness ==
    /\ SelDone
    /\ max_pages = DEFAULT_MAX_PAGES
    /\ ~InResultsByPage(results, Anchor + 1)
    /\ Len(results) > 1
    /\ InWindow(Anchor + 1)

\* C3: for every cap max_pages >= 2 the capped window contains the anchor
\* page and the page anchor+1; no non-adjacent page takes the slot of the
\* anchor's immediate successor.
C3_CapKeepsAnchorAndNext ==
    (SelDone /\ max_pages >= 2)
        => (InWindow(Anchor) /\ InWindow(Anchor + 1))

\* C4: no page number <= 0 is returned when every hit's page is >= 1; with
\* the anchor on page 1 nothing is added before it.
C4_NoNonPositivePage ==
    sel_pc = "done"
        => /\ \A i \in 1..Len(window) : window[i] >= 1
           /\ (results # <<>> /\ Anchor = 1) => window[1] = 1

C4_Witness ==
    /\ SelDone
    /\ Anchor = 1
    /\ Len(results) > 1
    /\ Len(window) < max_pages
    /\ window[1] = 1

\* C5: the returned list is strictly ascending by page number, so no page
\* occurs twice, also when several hits share a page.
C5_StrictlyAscending ==
    sel_pc = "done"
        => \A i \in 1..(Len(window) - 1) : window[i] < window[i + 1]

C5_Witness ==
    /\ SelDone
    /\ \E i, j \in 1..Len(results) :
          i # j /\ results[i].page_number = results[j].page_number
    /\ InResultsByPage(results, Anchor + 1)
    /\ Len(window) >= 2

\* C6: the ranked hits (5, 1.0), (6, 1.02), (7, 1.2), (9, 1.3) give exactly
\* the window [5, 6, 7] under the default cap.
C6_ScenarioWindow ==
    (sel_pc = "done" /\ results = ScenarioHits /\ max_pages = DEFAULT_MAX_PAGES)
        => window = <<5, 6, 7>>

C6_Witness ==
    /\ sel_pc = "done"
    /\ results = ScenarioHits
    /\ max_pages = DEFAULT_MAX_PAGES
    /\ Len(window) = 3

\* The second-ranked hit's page, when there is a second hit
IsSecondPage(p) == Len(results) > 1 /\ results[2].page_number = p

IsHitPage(p) == InResultsByPage(results, p)

\* p is joined to the anchor by an unbroken run of hit pages
JoinedForward(p) == p > Anchor + 1 /\ \A q \in (Anchor + 2)..p : IsHitPage(q)

JoinedBackward(p) == p < Anchor /\ \A q \in p..(Anchor - 1) : IsHitPage(q)

\* C25: every page of the window other than the anchor, anchor+1 and the
\* second-ranked hit's page is joined to the anchor by an unbroken run of
\* hit pages (anchor+2..p forward, p..anchor-1 backward); the only page of
\* the window that no hit has is anchor+1.
C25_OtherPagesJoinedByHitRuns ==
    SelDone =>
        \A i \in 1..Len(window) :
            LET p == window[i]
            IN  /\ (p \notin {Anchor, Anchor + 1} /\ ~IsSecondPage(p))
                      => (JoinedForward(p) \/ JoinedBackward(p))
                /\ ~IsHitPage(p) => p = Anchor + 1

C25_Witness ==
    /\ SelDone
    /\ ~IsHitPage(Anchor + 1)
    /\ InWindow(Anchor + 1)
    /\ \E i \in 1..Len(window) :
          window[i] < Anchor /\ ~IsSecondPage(window[i])

\* the closeness rule of the second-ranked hit: distance <= 1.05 * top's
WithinTolerance ==
    results[2].distance * 100 <= results[1].distance * 105

\* C26: with the default cap, a second-ranked hit on a page other than the
\* anchor's has its page in the window whenever its distance is <= 1.05
\* times the top hit's distance; beyond that tolerance its page is in the
\* window only if it is anchor+1 or expansion from the anchor reaches it.
C26_SecondHitAddedWithinTolerance ==
    (/\ SelDone
     /\ max_pages = DEFAULT_MAX_PAGES
     /\ Len(results) > 1
     /\ results[2].page_number # Anchor)
        => LET p == results[2].page_number
           IN  /\ WithinTolerance => InWindow(p)
               /\ (~WithinTolerance /\ InWindow(p))
                     => (p = Anchor + 1 \/ JoinedForward(p) \/ JoinedBackward(p))

\* the second hit sits exactly on the tolerance and expansion cannot reach it
C26_Witness ==
    /\ SelDone
    /\ max_pages = DEFAULT_MAX_PAGES
    /\ Len(results) > 1
    /\ results[2].distance * 100 = results[1].distance * 105
    /\ results[2].page_number > Anchor + 2
    /\ ~JoinedForward(results[2].page_number)
    /\ InWindow(results[2].page_number)

\* C27: for every hit list and every cap max_pages >= 1 the function returns
\* at most max_pages page numbers.
C27_AtMostMaxPages ==
    sel_pc = "done" => Len(window) <= max_pages

C27_Witness ==
    /\ SelDone
    /\ Len(window) = max_pages
    /\ IsHitPage(Anchor + 1)
    /\ IsHitPage(Anchor + 2)
    /\ ~InWindow(Anchor + 2)

\* C28: whenever the window has fewer than max_pages pages, expansion
\* stopped in both directions at a page absent from the hit set (or at page
\* 0): every hit page joined to the anchor by a run of hit pages, and
\* anchor+1, is in the window.
C28_CapBindsOnDistinctPages ==
    (SelDone /\ Len(window) < max_pages)
        => /\ InWindow(Anchor + 1)
           /\ \A i \in 1..Len(results) :
                 LET p == results[i].page_number
                 IN  (JoinedForward(p) \/ JoinedBackward(p)) => InWindow(p)

(***************************************************************************)
(* Investor names as character lists, and Evaluator.normalize_name         *)
(***************************************************************************)
\* a name that is absent (None): a list holding a token that is no character
NO_NAME == <<"<None>">>

\* the character e with an acute accent
E_ACUTE == "e_acute"

LowerLetters ==
    {"a", "b", "c", "d", "e", "f", "g", "h", "i", "j", "k", "l", "m",
     "n", "o", "p", "q", "r", "s", "t", "u", "v", "w", "x", "y", "z"}

Digits == {"0", "1", "2", "3", "4", "5", "6", "7", "8", "9"}

UpperToLower ==
    [c \in {"A", "B", "C", "I", "L", "N", "T", "D"} |->
        CASE c = "A" -> "a" [] c = "B" -> "b" [] c = "C" -> "c"
          [] c = "I" -> "i" [] c = "L" -> "l" [] c = "N" -> "n"
          [] c = "T" -> "t" [] c = "D" -> "d"]

\* str.lower() on one character
Lower(c) == IF c \in DOMAIN UpperToLower THEN UpperToLower[c] ELSE c

\* the regular expression class \w on the characters of the model
IsWordChar(c) ==
    c \in LowerLetters \cup Digits \cup DOMAIN UpperToLower \cup {E_ACUTE, "_"}

LowerAll(name) == [i \in 1..Len(name) |-> Lower(name[i])]

\* name.replace(e-acute, 'e')
ReplaceEAcute(name) ==
    [i \in 1..Len(name) |-> IF name[i] = E_ACUTE THEN "e" ELSE name[i]]

\* maximal runs of word characters and of other characters, in order
RECURSIVE Segments(_)
Segments(name) ==
    IF name = <<>> THEN <<>>
    ELSE LET rest == Segments(Tail(name))
             c    == Head(name)
         IN  IF rest # <<>> /\ IsWordChar(Head(rest)[1]) = IsWordChar(c)
             THEN <<(<<c>> \o Head(rest))>> \o Tail(rest)
             ELSE <<(<<c>>)>> \o rest

RECURSIVE Flatten(_)
Flatten(segs) == IF segs = <<>> THEN <<>> ELSE Head(segs) \o Flatten(Tail(segs))

LegalSuffixes ==
    { <<"a", "b">>,
      <<"a", "k", "t", "i", "e", "b", "o", "l", "a", "g">>,
      <<"l", "t", "d">>,
      <<"i", "n", "c">>,
      <<"l", "l", "c">> }

\* re.sub(r'\b(ab|aktiebolag|ltd|inc|llc)\b', '', name)
StripLegalSuffixes(name) ==
    Flatten(SelectSeq(Segments(name), LAMBDA seg : seg \notin LegalSuffixes))

\* re.sub(r'[^a-z0-9]+', '', name)
KeepAlnum(name) == SelectSeq(name, LAMBDA c : c \in LowerLetters \cup Digits)

normalize_name(name) ==
    IF name = NO_NAME \/ name = <<>> THEN <<>>
    ELSE KeepAlnum(StripLegalSuffixes(ReplaceEAcute(LowerAll(name))))

(***************************************************************************)
(* Investor merge: merge_and_finalize_outputs (investors branch) and the   *)
(* combination step of process_issue.py                                    *)
(***************************************************************************)
NAME_ACME_AB  == <<"A", "c", "m", "e", " ", "A", "B">>
NAME_ACME     == <<"a", "c", "m", "e">>
NAME_CAFE_INC == <<"C", "a", "f", E_ACUTE, ",", " ", "I", "n", "c", ".">>
NAME_EMPTY    == <<>>

InvestorNames == {NAME_ACME_AB, NAME_ACME, NAME_CAFE_INC, NAME_EMPTY, NO_NAME}

Levels == {1, 2}

\* a float amount, held in thousandths
Float(thousandths) == [type |-> "float", thousandths |-> thousandths]

\* the text of a number with exactly three decimals, e.g. "1000.000"
Str3(whole, frac) == [type |-> "str", whole |-> whole, frac |-> frac]

\* the text str() gives a float, e.g. "12.5": the whole part and the
\* decimal digits
FloatStr(whole, digits) == [type |-> "str", whole |-> whole, digits |-> digits]

\* Python None / JSON null
None == [type |-> "none"]

CashAmounts == {Float(1000000), Float(500000)}

InvestorItems ==
    [ name : InvestorNames, level : Levels, amount_in_cash : CashAmounts,
      amount_in_percentage : {None} ]

\* Investor.model_validate(item): name is a required string
IsValidInvestor(item) == item.name # NO_NAME

\* f"{investor.amount_in_cash:.3f}" for a float amount
FormatCashKeep(amount) == amount

FormatCash(amount) ==
    IF amount.type = "float"
    THEN Str3(amount.thousandths \div 1000, amount.thousandths % 1000)
    ELSE amount

\* str(investor.amount_in_percentage) for a float amount: the shortest
\* decimal text, with at least one decimal
FormatPercentage(amount) ==
    IF amount.type = "float"
    THEN LET frac == amount.thousandths % 1000
         IN  FloatStr(amount.thousandths \div 1000,
                      IF frac % 100 = 0 THEN <<frac \div 100>>
                      ELSE IF frac % 10 = 0
                      THEN <<frac \div 100, (frac \div 10) % 10>>
                      ELSE <<frac \div 100, (frac \div 10) % 10, frac % 10>>)
    ELSE amount

\* the identity key of the dedup loop: (investor.name, investor.level)
SeenKeyNormalized(inv) == <<normalize_name(inv.name), inv.level>>

SeenKey(inv) == <<inv.name, inv.level>>

\* extraction_logic.py lines 284-301
RECURSIVE DedupInvestors(_)
DedupInvestors(field_value) ==
    IF field_value = <<>> THEN <<>>
    ELSE LET investors == DedupInvestors(SubSeq(field_value, 1,
                                                Len(field_value) - 1))
             item == field_value[Len(field_value)]
             seen_entries == {SeenKey(investors[i]) : i \in 1..Len(investors)}
         IN  IF /\ IsValidInvestor(item)
                /\ item.name # <<>>
                /\ SeenKey(item) \notin seen_entries
             THEN Append(investors,
                         [item EXCEPT
                            !.amount_in_cash = FormatCash(@),
                            !.amount_in_percentage = FormatPercentage(@)])
             ELSE investors

\* process_issue.py lines 113-125
RECURSIVE UniqueInvestors(_)
UniqueInvestors(combined_investors) ==
    IF combined_investors = <<>> THEN <<>>
    ELSE LET unique_investors ==
                 UniqueInvestors(SubSeq(combined_investors, 1,
                                        Len(combined_investors) - 1))
             investor == combined_investors[Len(combined_investors)]
             seen_entries == {SeenKey(unique_investors[i]) :
                                 i \in 1..Len(unique_investors)}
         IN  IF /\ investor.name # NO_NAME
                /\ investor.name # <<>>
                /\ SeenKey(investor) \notin seen_entries
             THEN Append(unique_investors, investor)
             ELSE unique_investors

InvestorLists == UNION {[1..n -> InvestorItems] : n \in 0..MaxInvestors}

\* "Acme AB" level 1, "acme" level 1, "Acme AB" level 2
ScenarioInvestors ==
    << [name |-> NAME_ACME_AB, level |-> 1, amount_in_cash |-> Float(1000000),
        amount_in_percentage |-> None],
       [name |-> NAME_ACME,    level |-> 1, amount_in_cash |-> Float(1000000),
        amount_in_percentage |-> None],
       [name |-> NAME_ACME_AB, level |-> 2, amount_in_cash |-> Float(500000),
        amount_in_percentage |-> None] >>

InitMerge ==
    /\ merge_input \in InvestorLists
    /\ merged = <<>>
    /\ merge_pc = "ready"
    /\ final_output = [exists |-> FALSE, content |-> <<>>]
    /\ SelectIdle
    /\ ConflictIdle
    /\ IndexerIdle
    /\ ChunkerIdle
    /\ ExtractIdle

\* merge_and_finalize_outputs, extraction_field = "investors"
MergeFinalize ==
    /\ merge_pc = "ready"
    /\ merged' = DedupInvestors(merge_input)
    /\ merge_pc' = "merge_and_finalize_outputs"
    /\ UNCHANGED <<merge_input, final_output>>
    /\ UNCHANGED <<selVars, confVars, idxVars, chunkVars, extractVars>>

\* process_issue.py main, step 2
CombineIssue ==
    /\ merge_pc = "ready"
    /\ merged' = UniqueInvestors(merge_input)
    /\ merge_pc' = "process_issue"
    /\ UNCHANGED <<merge_input, final_output>>
    /\ UNCHANGED <<selVars, confVars, idxVars, chunkVars, extractVars>>

NextMerge == MergeFinalize \/ CombineIssue

SpecMerge == InitMerge /\ [][NextMerge]_vars

(***************************************************************************)
(* Properties of the investor merge                                        *)
(***************************************************************************)
MergeDone == merge_pc \in {"merge_and_finalize_outputs", "process_issue"}

\* C7: merged investor entries are deduplicated by the key (normalized name,
\* level), first-seen entry kept: no two surviving entries share a key, and
\* "Acme AB"/1, "acme"/1, "Acme AB"/2 yields exactly two entries.
C7_DedupByNormalizedKey ==
    MergeDone =>
        /\ \A i, j \in 1..Len(merged) :
              i # j => SeenKeyNormalized(merged[i]) # SeenKeyNormalized(merged[j])
        /\ merge_input = ScenarioInvestors => Len(merged) = 2

(***************************************************************************)
(* Evaluator.detect_conflicts                                              *)
(***************************************************************************)
\* JSON values of a field: null, a string (a list of text tokens, " " being
\* a blank), or a float
NoneValue == [type |-> "none", text |-> <<>>]

Str(text) == [type |-> "str", text |-> text]

FloatValue(text) == [type |-> "float", text |-> text]

\* str(value)
PyStr(value) == value.text

\* str.strip()
RECURSIVE LStrip(_)
LStrip(text) ==
    IF text # <<>> /\ Head(text) = " " THEN LStrip(Tail(text)) ELSE text

RECURSIVE RStrip(_)
RStrip(text) ==
    IF text # <<>> /\ text[Len(text)] = " "
    THEN RStrip(SubSeq(text, 1, Len(text) - 1))
    ELSE text

Strip(text) == RStrip(LStrip(text))

\* `if value is None or value == "": continue`
IsSkippedValueNoneOnly(value) == value.type = "none"

IsSkippedValue(value) ==
    value.type = "none" \/ (value.type = "str" /\ value.text = <<>>)

RecordDates ==
    { NoneValue, Str(<<>>), Str(<<"2024-01-10">>), Str(<<"2024-01-12">>),
      Str(<<"2024-01-10", " ">>) }

UnitSubPrices == { FloatValue(<<"5.0">>), Str(<<"5.0">>) }

IsinUnits == { Str(<<"SE01">>), Str(<<"SE02">>) }

DocInvestorLists ==
    { <<>>,
      << [name |-> NAME_ACME_AB, level |-> 1,
          amount_in_cash |-> Str3(1000, 0)] >>,
      << [name |-> NAME_ACME, level |-> 1,
          amount_in_cash |-> Str3(500, 0)] >> }

\* one document object of the merged output file
DocData ==
    [ important_dates : [record_date : RecordDates],
      offering_terms  : [unit_sub_price : UnitSubPrices],
      investors       : DocInvestorLists,
      isin_units      : IsinUnits ]

LevelText(level) == IF level = 1 THEN "1" ELSE "2"

\* registry insertions of one dict-valued category (lines 160-170)
DictEntries(doc, category, field, value) ==
    IF IsSkippedValue(value) THEN <<>>
    ELSE << [key     |-> <<category, <<field>>>>,
             val_str |-> Strip(PyStr(value)),
             doc     |-> doc,
             val     |-> value] >>

\* registry insertions of the investors list (lines 172-187)
RECURSIVE InvestorEntries(_, _)
InvestorEntries(doc, invs) ==
    IF invs = <<>> THEN <<>>
    ELSE LET inv  == Head(invs)
             name == normalize_name(inv.name)
         IN  (IF name = <<>> THEN <<>>
              ELSE << [key     |-> <<"investors",
                                     name \o <<".", LevelText(inv.level)>>>>,
                       val_str |-> inv,
                       doc     |-> doc,
                       val     |-> inv] >>)
             \o InvestorEntries(doc, Tail(invs))

\* lines 155-187 for one document; a top-level scalar such as isin_units is
\* neither a dict nor a list and registers nothing
DocEntries(doc, doc_data) ==
    InvestorEntries(doc, doc_data.investors)
    \o DictEntries(doc, "important_dates", "record_date",
                   doc_data.important_dates.record_date)
    \o DictEntries(doc, "offering_terms", "unit_sub_price",
                   doc_data.offering_terms.unit_sub_price)

RECURSIVE RegistryEntries(_, _)
RegistryEntries(data, doc) ==
    IF doc > Len(data) THEN <<>>
    ELSE DocEntries(doc, data[doc]) \o RegistryEntries(data, doc + 1)

\* registry[key]: instances grouped by val_str, groups in first-seen order
RECURSIVE FlatValues(_)
FlatValues(entries) ==
    IF entries = <<>> THEN <<>>
    ELSE LET v == Head(entries).val_str
         IN  SelectSeq(entries, LAMBDA e : e.val_str = v)
             \o FlatValues(SelectSeq(entries, LAMBDA e : e.val_str # v))

\* lines 190-200: several distinct values, from at least two documents
IsConflict(entries) ==
    /\ Cardinality({entries[i].val_str : i \in 1..Len(entries)}) > 1
    /\ Cardinality({entries[i].doc : i \in 1..Len(entries)}) >= 2

detect_conflicts(data) ==
    LET registry == RegistryEntries(data, 1)
        keys     == {registry[i].key : i \in 1..Len(registry)}
        of(key)  == SelectSeq(registry, LAMBDA e : e.key = key)
    IN  [key \in {k \in keys : IsConflict(of(k))} |->
            [e \in 1..Len(FlatValues(of(key))) |->
                [doc |-> FlatValues(of(key))[e].doc,
                 val |-> FlatValues(of(key))[e].val]]]

InitConflict ==
    /\ ai_data_full \in UNION {[1..n -> DocData] : n \in 1..MaxDocs}
    /\ conflicts = <<>>
    /\ conf_pc = "ready"
    /\ SelectIdle
    /\ MergeIdle
    /\ IndexerIdle
    /\ ChunkerIdle
    /\ ExtractIdle

DetectConflicts ==
    /\ conf_pc = "ready"
    /\ conflicts' = detect_conflicts(ai_data_full)
    /\ conf_pc' = "done"
    /\ UNCHANGED ai_data_full
    /\ UNCHANGED <<selVars, mergeVars, idxVars, chunkVars, extractVars>>

NextConflict == DetectConflicts

SpecConflict == InitConflict /\ [][NextConflict]_vars

(***************************************************************************)
(* Properties of detect_conflicts                                          *)
(***************************************************************************)
RecordDateKey == <<"important_dates", <<"record_date">>>>

UnitSubPriceKey == <<"offering_terms", <<"unit_sub_price">>>>

\* the value a document reports for a nested field
ValueOf(doc, key) ==
    IF key = RecordDateKey
    THEN ai_data_full[doc].important_dates.record_date
    ELSE ai_data_full[doc].offering_terms.unit_sub_price

RecordDateOf(doc) == ValueOf(doc, RecordDateKey)

DocIds == 1..Len(ai_data_full)

\* C8: a conflict is reported for a field (here record_date) exactly when two
\* different documents report different non-null values for it.
C8_ConflictIffDifferentNonNull ==
    conf_pc = "done" =>
           (RecordDateKey \in DOMAIN conflicts)
              <=> \E a, b \in DocIds :
                     /\ a # b
                     /\ RecordDateOf(a) # NoneValue
                     /\ RecordDateOf(b) # NoneValue
                     /\ RecordDateOf(a) # RecordDateOf(b)

\* the text a value is compared by: str(value).strip()
ComparedText(value) == RStrip(LStrip(value.text))

HasText(value) == value # NoneValue /\ value # Str(<<>>)

DiffersAcrossDocs(key) ==
    \E a, b \in DocIds :
        /\ a # b
        /\ HasText(ValueOf(a, key))
        /\ HasText(ValueOf(b, key))
        /\ ComparedText(ValueOf(a, key)) # ComparedText(ValueOf(b, key))

InstancesOf(key) ==
    {[doc |-> d, val |-> ValueOf(d, key)] :
        d \in {x \in DocIds : HasText(ValueOf(x, key))}}

\* C8 (amended): for a field nested in a category object, a conflict is
\* reported exactly when two different documents report values that are
\* neither null nor the empty string and whose texts differ after
\* str(value).strip(); the entry then lists the value of every such
\* document.  2024-01-10 against 2024-01-12 is reported with both values.
C8_ConflictIffDifferentText ==
    conf_pc = "done" =>
        /\ \A key \in {RecordDateKey, UnitSubPriceKey} :
              /\ (key \in DOMAIN conflicts) <=> DiffersAcrossDocs(key)
              /\ key \in DOMAIN conflicts
                    => Range(conflicts[key]) = InstancesOf(key)
        /\ (/\ Len(ai_data_full) = 2
            /\ RecordDateOf(1) = Str(<<"2024-01-10">>)
            /\ RecordDateOf(2) = Str(<<"2024-01-12">>))
              => conflicts[RecordDateKey] =
                    << [doc |-> 1, val |-> Str(<<"2024-01-10">>)],
                       [doc |-> 2, val |-> Str(<<"2024-01-12">>)] >>

C8_Witness ==
    /\ conf_pc = "done"
    /\ Len(ai_data_full) = 2
    /\ RecordDateOf(1) = Str(<<"2024-01-10">>)
    /\ RecordDateOf(2) = Str(<<"2024-01-12">>)
    /\ RecordDateKey \in DOMAIN conflicts
    /\ UnitSubPriceKey \notin DOMAIN conflicts

(***************************************************************************)
(* PDFIndexer._chunk_text                                                  *)
(***************************************************************************)
\* the characters of the texts
TextChars == {"a", "b", " "}

IsSpace(c) == c = " "

\* the texts handed to _chunk_text
Texts == UNION { [1..n -> TextChars] : n \in 0..MaxTextLen }

\* tokenizer.encode: a token is a piece of the text; a space joins the
\* character after it (" a" is one token), any other character stands alone
RECURSIVE Encode(_)
Encode(txt) ==
    IF txt = <<>> THEN <<>>
    ELSE IF Len(txt) >= 2 /\ IsSpace(txt[1]) /\ ~IsSpace(txt[2])
    THEN << <<txt[1], txt[2]>> >> \o Encode(SubSeq(txt, 3, Len(txt)))
    ELSE << <<txt[1]>> >> \o Encode(Tail(txt))

\* tokenizer.decode: the pieces joined
Decode(toks) == Flatten(toks)

\* Python's seq[start:stop]; start and stop are 0-based and may be negative
\* or past the end
SliceBound(n, i) ==
    IF i < 0 THEN (IF i + n < 0 THEN 0 ELSE i + n)
    ELSE IF i > n THEN n ELSE i

Slice(seq, start, stop) ==
    SubSeq(seq, SliceBound(Len(seq), start) + 1, SliceBound(Len(seq), stop))

\* line 95: start_index += self.chunk_size - self.chunk_overlap
NextStartNoOverlap(start, size, overlap) == start + size

NextStart(start, size, overlap) == start + size - overlap

\* the chunks _chunk_text returns: the decoded token chunks
Chunks == [i \in 1..Len(token_chunks) |-> Decode(token_chunks[i])]

InitChunker ==
    /\ page_text \in Texts
    /\ chunk_size \in 1..MaxChunkSize
    /\ chunk_overlap \in 0..MaxChunkSize
    /\ tokens = <<>>
    /\ token_chunks = <<>>
    /\ start_index = 0
    /\ chunk_pc = "ready"
    /\ SelectIdle
    /\ MergeIdle
    /\ ConflictIdle
    /\ IndexerIdle
    /\ ExtractIdle

\* lines 83-89: the empty text returns at once, any other text is encoded
ChunkStart ==
    /\ chunk_pc = "ready"
    /\ IF page_text = <<>>
       THEN /\ chunk_pc' = "done"
            /\ UNCHANGED tokens
       ELSE /\ tokens' = Encode(page_text)
            /\ chunk_pc' = "loop"
    /\ UNCHANGED <<page_text, chunk_size, chunk_overlap, token_chunks,
                   start_index>>
    /\ UNCHANGED <<selVars, mergeVars, confVars, idxVars, extractVars>>

\* lines 90-95: one pass of the while loop. A loop that cannot end is
\* followed for MaxChunks passes
ChunkLoop ==
    /\ chunk_pc = "loop"
    /\ start_index < Len(tokens)
    /\ chunk_size > chunk_overlap \/ Len(token_chunks) < MaxChunks
    /\ token_chunks' =
          Append(token_chunks,
                 Slice(tokens, start_index, start_index + chunk_size))
    /\ start_index' = NextStart(start_index, chunk_size, chunk_overlap)
    /\ UNCHANGED <<page_text, chunk_size, chunk_overlap, tokens, chunk_pc>>
    /\ UNCHANGED <<selVars, mergeVars, confVars, idxVars, extractVars>>

\* lines 90, 97: the loop ends and the chunks are returned
ChunkReturn ==
    /\ chunk_pc = "loop"
    /\ start_index >= Len(tokens)
    /\ chunk_pc' = "done"
    /\ UNCHANGED <<page_text, chunk_size, chunk_overlap, tokens,
                   token_chunks, start_index>>
    /\ UNCHANGED <<selVars, mergeVars, confVars, idxVars, extractVars>>

NextChunker == ChunkStart \/ ChunkLoop \/ ChunkReturn

SpecChunker == InitChunker /\ [][NextChunker]_vars

(***************************************************************************)
(* Properties of _chunk_text                                               *)
(***************************************************************************)
\* C14: a configuration with chunk_overlap >= chunk_size is rejected before
\* any chunk is made: the loop never runs with a step <= 0 and no chunk is
\* ever produced under such a configuration.
C14_OverlapNotBelowSizeRejected ==
    /\ chunk_pc = "loop" => chunk_size - chunk_overlap > 0
    /\ chunk_overlap >= chunk_size => token_chunks = <<>>

IsWhitespaceOnly(txt) == \A i \in 1..Len(txt) : IsSpace(txt[i])

\* C15: _chunk_text returns no chunk for the empty text and for a text of
\* whitespace only.
C15_BlankTextGivesNoChunk ==
    (chunk_pc = "done" /\ IsWhitespaceOnly(page_text)) => Chunks = <<>>

\* every chunk after the first without its leading overlap tokens
RECURSIVE NonOverlapTail(_, _)
NonOverlapTail(tchunks, overlap) ==
    IF tchunks = <<>> THEN <<>>
    ELSE SubSeq(Head(tchunks), overlap + 1, Len(Head(tchunks)))
         \o NonOverlapTail(Tail(tchunks), overlap)

Reassembled(tchunks, overlap) ==
    IF tchunks = <<>> THEN <<>>
    ELSE Head(tchunks) \o NonOverlapTail(Tail(tchunks), overlap)

\* C16: with 0 <= chunk_overlap < chunk_size, the first chunk followed by
\* every later chunk without its leading chunk_overlap tokens is the token
\* sequence of the text.
C16_ChunksReassembleTokens ==
    (chunk_pc = "done" /\ chunk_overlap < chunk_size)
        => Reassembled(token_chunks, chunk_overlap) = Encode(page_text)

\* a text of several chunks whose last chunk lies inside the overlap
C16_Witness ==
    /\ chunk_pc = "done"
    /\ 0 < chunk_overlap /\ chunk_overlap < chunk_size
    /\ Len(token_chunks) >= 3
    /\ Len(token_chunks[Len(token_chunks)]) <= chunk_overlap
    /\ Len(tokens) < Len(page_text)

(***************************************************************************)
(* PDFIndexer                                                              *)
(***************************************************************************)
\* config.EMBEDDING_BATCH_SIZE is 100; the model uses small batches
EMBEDDING_BATCH_SIZE == 2

\* The documents: for every page, the number of chunks _chunk_text makes of
\* its text (0: the page has no text and is skipped)
PdfPages ==
    [ a |-> <<2, 0, 1>>,
      b |-> <<1, 2, 2>>,
      scan |-> <<0>>,
      broken |-> <<>> ]

Pdfs == DOMAIN PdfPages

DocNumber(pdf) ==
    CASE pdf = "a" -> 1 [] pdf = "b" -> 2 [] pdf = "scan" -> 3
      [] pdf = "broken" -> 4

\* fitz.open(pdf_path) raises for a file that is not a readable PDF
PdfOpens(pdf) == pdf # "broken"

\* the text of a chunk, as a number that identifies it
ChunkText(pdf, page_number, chunk_number) ==
    100 * DocNumber(pdf) + 10 * page_number + chunk_number

ChunkData(pdf, page_number, chunk_number) ==
    [ document_id  |-> pdf,
      page_number  |-> page_number,
      chunk_number |-> chunk_number,
      text         |-> ChunkText(pdf, page_number, chunk_number) ]

\* extract_text_from_pdf: chunks in page-then-chunk order
RECURSIVE ChunksFromPage(_, _)
ChunksFromPage(pdf, page_num) ==
    IF page_num > Len(PdfPages[pdf]) THEN <<>>
    ELSE [i \in 1..PdfPages[pdf][page_num] |-> ChunkData(pdf, page_num, i)]
         \o ChunksFromPage(pdf, page_num + 1)

extract_text_from_pdf(pdf) == ChunksFromPage(pdf, 1)

\* the embedding of a text: the embedder is an external, deterministic map
Embed(text) == <<text \div 10, text % 10>>

EmbedAll(chunks) == [i \in 1..Len(chunks) |-> Embed(chunks[i].text)]

\* range(0, len(chunks_data), embedding_batch_size)
NumBatches(chunks) ==
    (Len(chunks) + EMBEDDING_BATCH_SIZE - 1) \div EMBEDDING_BATCH_SIZE

\* the chunks of the batches before batch number `batch`
ChunksBeforeBatch(chunks, batch) ==
    SubSeq(chunks, 1, (batch - 1) * EMBEDDING_BATCH_SIZE)

\* what the embedder answers to a batch that it does not refuse:
\*   "ok"        one vector of the index dimension per chunk
\*   "count"     the answer to the last batch lacks its last vector
\*   "length"    one vector is shorter than the others
\*   "dimension" every vector has the same length, not the index dimension
EmbedderReplies == {"ok", "count", "length", "dimension"}

\* embeddings_list (line 207) when no batch raises
EmbeddingsList(chunks, reply) ==
    IF reply = "count"
    THEN EmbedAll(SubSeq(chunks, 1, Len(chunks) - 1))
    ELSE EmbedAll(chunks)

\* faiss.write_index of a file the reader accepts
File(content) == [exists |-> TRUE, readable |-> TRUE, content |-> content]

\* a file that exists but is partial or corrupt
DamagedFile == [exists |-> TRUE, readable |-> FALSE, content |-> <<>>]

\* the outcome of an operation: failed = it reported an error, raised = the
\* error left the method as an exception, reply = what the embedder answered
\* to the batches of an index build
Outcome(op, pdf, failed, raised, ret) ==
    [ op |-> op, pdf |-> pdf, failed |-> failed, raised |-> raised,
      ret |-> ret, reply |-> "ok", query |-> <<>>, top_k |-> 0,
      hits |-> <<>> ]

InitIndexer ==
    /\ index = <<>>
    /\ metadata = <<>>
    /\ index_file = NoFile
    /\ metadata_file = NoFile
    /\ last_call = Outcome("init", "", FALSE, FALSE, 0)
    /\ reset_pending = FALSE
    /\ SelectIdle
    /\ MergeIdle
    /\ ConflictIdle
    /\ ChunkerIdle
    /\ ExtractIdle

\* _load_index: the state a new indexer has for the files on disk
LoadedIndexNotAssigned == <<>>

LoadedIndex ==
    IF index_file.exists /\ metadata_file.exists /\ index_file.readable
    THEN index_file.content     \* line 63
    ELSE <<>>                   \* line 51

LoadedMetadata ==
    IF /\ index_file.exists /\ metadata_file.exists
       /\ index_file.readable /\ metadata_file.readable
    THEN metadata_file.content  \* lines 64-65
    ELSE <<>>                   \* line 54

\* PDFIndexer(index_path): __init__ followed by _load_index
Construct ==
    /\ index' = LoadedIndex
    /\ metadata' = LoadedMetadata
    /\ last_call' = Outcome("init", "", FALSE, FALSE, 0)
    /\ UNCHANGED <<index_file, metadata_file, reset_pending>>
    /\ UNCHANGED <<selVars, mergeVars, confVars, chunkVars, extractVars>>

\* reset_index
ResetIndexKeepFiles ==
    /\ index' = <<>>
    /\ metadata' = <<>>
    /\ UNCHANGED <<index_file, metadata_file>>
    /\ last_call' = Outcome("reset_index", "", FALSE, FALSE, 0)
    /\ reset_pending' = TRUE
    /\ UNCHANGED <<selVars, mergeVars, confVars, chunkVars, extractVars>>

ResetIndex ==
    /\ index' = <<>>
    /\ metadata' = <<>>
    /\ index_file' = NoFile
    /\ metadata_file' = NoFile
    /\ last_call' = Outcome("reset_index", "", FALSE, FALSE, 0)
    /\ reset_pending' = TRUE
    /\ UNCHANGED <<selVars, mergeVars, confVars, chunkVars, extractVars>>

\* the indexer's memory and files, as one value
IndexerState ==
    [ index |-> index, metadata |-> metadata,
      index_file |-> index_file, metadata_file |-> metadata_file ]

\* the state reset_index leaves
ResetState ==
    [ index |-> <<>>, metadata |-> <<>>,
      index_file |-> NoFile, metadata_file |-> NoFile ]

\* index_pdf(pdf) called in state s: the state it leaves and its outcome.
\* fail_at = 0: no embedding batch raises; fail_at = k: the k-th batch raises
index_pdf(s, pdf, fail_at, reply) ==
    LET s0          == IF Len(s.index) > 0 THEN ResetState ELSE s
        chunks_data == extract_text_from_pdf(pdf)
        embeddings  == EmbeddingsList(chunks_data, reply)
        extended    == [s0 EXCEPT !.metadata = s0.metadata \o chunks_data]
    IN  IF ~PdfOpens(pdf)
        THEN \* line 112 raises out of line 190
             [ state |-> s0,
               call  |-> Outcome("index_pdf", pdf, TRUE, TRUE, 0) ]
        ELSE IF fail_at > 0
        THEN \* lines 210-213
             [ state |-> [s0 EXCEPT !.metadata = s0.metadata
                              \o ChunksBeforeBatch(chunks_data, fail_at)],
               call  |-> Outcome("index_pdf", pdf, TRUE, FALSE, 0) ]
        ELSE IF embeddings = <<>>
        THEN \* lines 216-218
             [ state |-> extended,
               call  |-> [ Outcome("index_pdf", pdf, FALSE, FALSE, 0)
                           EXCEPT !.reply =
                              IF chunks_data = <<>> THEN "ok" ELSE reply ] ]
        ELSE IF reply \in {"length", "dimension"}
        THEN \* np.array (line 220) or index.add (line 224) raises
             [ state |-> extended,
               call  |-> [ Outcome("index_pdf", pdf, TRUE, TRUE, 0)
                           EXCEPT !.reply = reply ] ]
        ELSE \* lines 220-229
             [ state |->
                 [ index |-> s0.index \o embeddings,
                   metadata |-> extended.metadata,
                   index_file |-> File(s0.index \o embeddings),
                   metadata_file |-> File(extended.metadata) ],
               call  |-> [ Outcome("index_pdf", pdf, FALSE, FALSE,
                                   Len(chunks_data))
                           EXCEPT !.reply = reply ] ]

\* the embedder's behaviours index_pdf(pdf) can meet
FailPoints(pdf) == 0..NumBatches(extract_text_from_pdf(pdf))

\* the index_pdf step of an indexer
IndexPdf(pdf, fail_at, reply) ==
    LET r == index_pdf(IndexerState, pdf, fail_at, reply)
    IN  /\ Len(metadata) <= MaxMetadata
        /\ fail_at \in FailPoints(pdf)
        /\ fail_at > 0 => reply = "ok"
        /\ index' = r.state.index
        /\ metadata' = r.state.metadata
        /\ index_file' = r.state.index_file
        /\ metadata_file' = r.state.metadata_file
        /\ last_call' = r.call
        /\ reset_pending' = /\ r.call.ret = 0
                            /\ reset_pending \/ Len(index) > 0
        /\ UNCHANGED <<selVars, mergeVars, confVars, chunkVars, extractVars>>

\* squared L2 distance, as faiss.IndexFlatL2 reports it
Distance(u, v) ==
    (u[1] - v[1]) * (u[1] - v[1]) + (u[2] - v[2]) * (u[2] - v[2])

\* the row IndexFlatL2.search reports next: the nearest row not yet
\* reported, the lower row id among equally near rows
NearestRow(vectors, q, reported) ==
    CHOOSE i \in (1..Len(vectors)) \ reported :
        \A j \in (1..Len(vectors)) \ reported :
            \/ Distance(vectors[i], q) < Distance(vectors[j], q)
            \/ Distance(vectors[i], q) = Distance(vectors[j], q) /\ i <= j

\* index.search(q, k): the k nearest rows, nearest first
RECURSIVE Search(_, _, _, _)
Search(vectors, q, k, rows) ==
    IF Len(rows) >= k \/ Len(rows) >= Len(vectors) THEN rows
    ELSE Search(vectors, q, k,
                Append(rows, NearestRow(vectors, q, Range(rows))))

Min(a, b) == IF a <= b THEN a ELSE b

\* query(query_text, top_k) on vectors and metadata records, q being the
\* embedding of query_text
query(vectors, records, q, top_k) ==
    IF Len(vectors) = 0 THEN <<>>     \* lines 243-245
    ELSE LET rows   == Search(vectors, q, Min(top_k, Len(vectors)), <<>>)
             ranked == [i \in 1..Len(rows) |-> [rank |-> i, row |-> rows[i]]]
             valid  == SelectSeq(ranked, LAMBDA r : r.row <= Len(records))
         IN  [i \in 1..Len(valid) |->
                [ rank        |-> valid[i].rank,
                  document_id |-> records[valid[i].row].document_id,
                  page_number |-> records[valid[i].row].page_number,
                  text        |-> records[valid[i].row].text,
                  distance    |-> Distance(vectors[valid[i].row], q) ]]

\* embeddings of the query texts
QueryVectors == { <<12, 1>>, <<22, 2>>, <<13, 1>> }

\* the query step of an indexer; embedder_ok = FALSE: generate_embedding
\* (line 248) raises
Query(q, top_k, embedder_ok) ==
    /\ IF Len(index) > 0 /\ ~embedder_ok
       THEN last_call' = Outcome("query", "", TRUE, TRUE, 0)
       ELSE last_call' =
               [ Outcome("query", "", FALSE, FALSE, 0) EXCEPT
                   !.query = q, !.top_k = top_k,
                   !.hits = query(index, metadata, q, top_k) ]
    /\ UNCHANGED <<index, metadata, index_file, metadata_file, reset_pending>>
    /\ UNCHANGED <<selVars, mergeVars, confVars, chunkVars, extractVars>>

\* the environment: a persisted file is removed, or left partial or corrupt
\* (the two writes of _save_index are not atomic)
DamageIndexFile(how) ==
    /\ index_file.exists /\ index_file.readable
    /\ index_file' = IF how = "remove" THEN NoFile ELSE DamagedFile
    /\ last_call' = Outcome("environment", "", FALSE, FALSE, 0)
    /\ UNCHANGED <<index, metadata, metadata_file, reset_pending>>
    /\ UNCHANGED <<selVars, mergeVars, confVars, chunkVars, extractVars>>

DamageMetadataFile(how) ==
    /\ metadata_file.exists /\ metadata_file.readable
    /\ metadata_file' = IF how = "remove" THEN NoFile ELSE DamagedFile
    /\ last_call' = Outcome("environment", "", FALSE, FALSE, 0)
    /\ UNCHANGED <<index, metadata, index_file, reset_pending>>
    /\ UNCHANGED <<selVars, mergeVars, confVars, chunkVars, extractVars>>

\* the documents fitz can open
ReadablePdfs == {pdf \in Pdfs : PdfOpens(pdf)}

\* an indexer on readable documents, with an embedder that answers every
\* batch properly or refuses it
NextIndexer ==
    \/ Construct
    \/ ResetIndex
    \/ \E pdf \in ReadablePdfs : \E fail_at \in FailPoints(pdf) :
          IndexPdf(pdf, fail_at, "ok")
    \/ \E q \in QueryVectors : \E top_k \in 1..MaxTopK :
          \E embedder_ok \in BOOLEAN : Query(q, top_k, embedder_ok)

SpecIndexer == InitIndexer /\ [][NextIndexer]_vars

\* the same indexer where, besides, a document can be unreadable, the
\* embedder can answer with vectors of the wrong number or length, and the
\* persisted files can be removed or damaged
NextIndexerFaults ==
    \/ NextIndexer
    \/ \E pdf \in Pdfs : \E reply \in EmbedderReplies : IndexPdf(pdf, 0, reply)
    \/ \E how \in {"remove", "damage"} : DamageIndexFile(how)
    \/ \E how \in {"remove", "damage"} : DamageMetadataFile(how)

SpecIndexerFaults == InitIndexer /\ [][NextIndexerFaults]_vars

(***************************************************************************)
(* Properties of PDFIndexer                                                *)
(***************************************************************************)
\* C9: the metadata list and the vector store are positionally aligned:
\* same length, and row i is the embedding of the chunk in metadata[i].
C9_MetadataAlignedWithIndex ==
    /\ Len(index) = Len(metadata)
    /\ \A i \in 1..Len(index) : index[i] = Embed(metadata[i].text)

\* C10: a build in which an embedding batch fails commits nothing: vectors,
\* metadata and the persisted files are as they were before the call.
C10_FailedBuildCommitsNothing ==
    [][(last_call'.op = "index_pdf" /\ last_call'.failed)
          => UNCHANGED <<index, metadata, index_file, metadata_file>>]_vars


FileReadable(f) == f.exists /\ f.readable

\* C11: a new indexer on a path where either persisted file is missing,
\* partial or corrupt is empty: no vectors and no metadata.
C11_DamagedFilesLoadAsEmpty ==
    (/\ last_call.op = "init"
     /\ ~(FileReadable(index_file) /\ FileReadable(metadata_file)))
        => (index = <<>> /\ metadata = <<>>)

\* C12: after a successful index_pdf the chunk records of the index are
\* exactly the chunks of the document just indexed, in page-then-chunk
\* order.
C12_BuildHoldsExactlyNewChunks ==
    (last_call.op = "index_pdf" /\ last_call.ret > 0)
        => metadata = extract_text_from_pdf(last_call.pdf)

\* C17: an index build in which the embedder's answer has the wrong number
\* of vectors or a vector of the wrong length reports an error and adds
\* neither vectors nor metadata.
C17_MismatchedEmbeddingsRejected ==
    [][(last_call'.op = "index_pdf" /\ last_call'.reply # "ok")
          => /\ last_call'.failed
             /\ index' = index \/ index' = <<>>
             /\ metadata' = metadata \/ metadata' = <<>>]_vars

ChunkKey(record) ==
    <<record.document_id, record.page_number, record.chunk_number>>

\* C18: no two metadata records have the same (document_id, page_number,
\* chunk_number).
C18_ChunkKeysUnique ==
    \A i, j \in 1..Len(metadata) :
        i # j => ChunkKey(metadata[i]) # ChunkKey(metadata[j])

\* C19: from reset_index until an index build succeeds the index has no
\* vectors, a query returns the empty list, both persisted files are gone
\* and a new indexer on the path is empty.
C19_EmptyFromResetUntilBuild ==
    reset_pending =>
        /\ index = <<>>
        /\ ~index_file.exists /\ ~metadata_file.exists
        /\ LoadedIndex = <<>> /\ LoadedMetadata = <<>>
        /\ last_call.op = "query" => ~last_call.raised /\ last_call.hits = <<>>
        /\ last_call.op = "init" => metadata = <<>>

\* a query answered after reset_index and a failed build
C19_Witness ==
    /\ reset_pending
    /\ last_call.op = "query"
    /\ metadata # <<>>

HitRows(hit) ==
    {i \in 1..Len(metadata) :
        /\ metadata[i].document_id = hit.document_id
        /\ metadata[i].page_number = hit.page_number
        /\ metadata[i].text = hit.text}

\* C21: query(q, k) returns exactly min(k, number of stored chunks) hits,
\* each a stored chunk with its own distance to q, in non-decreasing
\* distance with equal distances in insertion order, and no stored chunk
\* left out is nearer than a returned one; an empty index gives the empty
\* list and no error.
C21_QueryReturnsNearestChunks ==
    (last_call.op = "query")
        => LET hits == last_call.hits
               q    == last_call.query
           IN  /\ index = <<>> => (~last_call.raised /\ hits = <<>>)
               /\ ~last_call.raised =>
                    /\ Len(hits) = Min(last_call.top_k, Len(index))
                    /\ \A i \in 1..Len(hits) :
                          /\ HitRows(hits[i]) # {}
                          /\ hits[i].distance = Distance(Embed(hits[i].text), q)
                    /\ \A i, j \in 1..Len(hits) :
                          i < j =>
                            \/ hits[i].distance < hits[j].distance
                            \/ /\ hits[i].distance = hits[j].distance
                               /\ SetMax(HitRows(hits[i])) < SetMax(HitRows(hits[j]))
                    /\ \A r \in 1..Len(metadata) :
                          \/ \E i \in 1..Len(hits) : r \in HitRows(hits[i])
                          \/ \A i \in 1..Len(hits) :
                                hits[i].distance
                                    <= Distance(Embed(metadata[r].text), q)

(***************************************************************************)
(* extract_from_pdf                                                        *)
(***************************************************************************)
\* line 153: indexer.query(search_query, top_k=5)
TOP_K == 5

\* indexer.get_page_count(pdf_path): the number of pages of the document
get_page_count(pdf) == Len(PdfPages[pdf])

\* what the vision model answers (get_json_from_image):
\*   "none"        nothing
\*   "text"        text that is not JSON
\*   "null"        JSON null, or an empty object or array
\*   "list"        a JSON array with elements
\*   "bad_object"  a JSON object that ExtractionResult rejects
\*   "object"      a JSON object that ExtractionResult accepts
Responses == {"none", "text", "null", "list", "bad_object", "object"}

\* clean_and_parse_json: the parsed value, None for text that is not JSON
clean_and_parse_json(json_data) ==
    CASE json_data = "text"       -> [type |-> "None", truthy |-> FALSE]
      [] json_data = "null"       -> [type |-> "null", truthy |-> FALSE]
      [] json_data = "list"       -> [type |-> "list", truthy |-> TRUE]
      [] json_data = "bad_object" -> [type |-> "dict", truthy |-> TRUE]
      [] json_data = "object"     -> [type |-> "dict", truthy |-> TRUE]

\* the hits as select_consecutive_pages reads them
PageHits(hits) ==
    [i \in 1..Len(hits) |->
        [page_number |-> hits[i].page_number, distance |-> hits[i].distance]]

\* lines 170-181: the selected pages an image is saved for; renders is the
\* set of pages extract_page_as_image can render
SavedImagePages(pdf, page_numbers, renders) ==
    SelectSeq(page_numbers,
              LAMBDA page_num : /\ page_num > 0
                                /\ page_num <= get_page_count(pdf)
                                /\ page_num \in renders)

Extracted(outcome, stage, source_pages, image_pages, saved) ==
    [ outcome |-> outcome, stage |-> stage, source_pages |-> source_pages,
      image_pages |-> image_pages, saved |-> saved ]

\* lines 187-201: from the model's answer to the return value
AfterModel(json_data, page_numbers, image_pages) ==
    IF json_data = "none"
    THEN Extracted("None", "model", <<>>, image_pages, FALSE)
    ELSE LET parsed_json == clean_and_parse_json(json_data)
         IN  IF ~parsed_json.truthy
             THEN Extracted("None", "parse", <<>>, image_pages, FALSE)
             ELSE IF json_data = "object"
             THEN \* line 196
                  Extracted("record", "saved", page_numbers, image_pages, TRUE)
             ELSE IF parsed_json.type = "dict"
             THEN \* lines 197-200
                  Extracted("None", "validation", page_numbers, image_pages,
                            TRUE)
             ELSE \* line 200 calls parsed_json.get on a value without it
                  Extracted("exception", "validation", <<>>, image_pages,
                            FALSE)

\* extract_from_pdf(pdf, ...): the indexer state it leaves and what it
\* returns. q is the embedding of search_query
extract_from_pdf(pdf, q, strategy, fail_at, reply, embedder_ok, renders, json_data) ==
    LET loaded  == [ index |-> LoadedIndex, metadata |-> LoadedMetadata,
                     index_file |-> index_file,
                     metadata_file |-> metadata_file ]
        build   == IF Len(loaded.index) = 0
                   THEN index_pdf(loaded, pdf, fail_at, reply)
                   ELSE [ state |-> loaded,
                          call  |-> Outcome("init", "", FALSE, FALSE, 0) ]
        s       == build.state
        hits    == query(s.index, s.metadata, q, TOP_K)
        page_numbers ==
            IF strategy = "top_hit" THEN <<hits[1].page_number>>
            ELSE select_consecutive_pages(PageHits(hits), DEFAULT_MAX_PAGES)
        image_pages == SavedImagePages(pdf, page_numbers, renders)
    IN  [ state |-> s,
          built |-> build.call.ret > 0,
          extracted |->
             IF build.call.raised
             THEN Extracted("exception", "index_pdf", <<>>, <<>>, FALSE)
             ELSE IF Len(s.index) > 0 /\ ~embedder_ok
             THEN Extracted("exception", "query", <<>>, <<>>, FALSE)
             ELSE IF hits = <<>>
             THEN Extracted("None", "query", <<>>, <<>>, FALSE)
             ELSE IF image_pages = <<>>
             THEN Extracted("None", "images", <<>>, <<>>, FALSE)
             ELSE AfterModel(json_data, page_numbers, image_pages) ]

Strategies == {"consecutive", "top_hit"}

RenderSets == { {}, {1}, {2, 3}, {1, 2, 3} }

\* what the index path of a document can hold when extract_from_pdf is
\* called: nothing, the index index_pdf saved for the document, or that
\* index with a file removed or damaged since
PersistedStates(pdf) ==
    LET chunks_data == extract_text_from_pdf(pdf)
        vectors_file == File(EmbedAll(chunks_data))
        records_file == File(chunks_data)
    IN  IF chunks_data = <<>>
        THEN { [index_file |-> NoFile, metadata_file |-> NoFile] }
        ELSE { [index_file |-> NoFile, metadata_file |-> NoFile],
               [index_file |-> vectors_file, metadata_file |-> records_file],
               [index_file |-> vectors_file, metadata_file |-> DamagedFile],
               [index_file |-> vectors_file, metadata_file |-> NoFile],
               [index_file |-> DamagedFile, metadata_file |-> records_file] }

InitExtract ==
    /\ pdf_path \in Pdfs
    /\ extracted = [outcome |-> "ready"]
    /\ index = <<>>
    /\ metadata = <<>>
    /\ \E persisted \in PersistedStates(pdf_path) :
          /\ index_file = persisted.index_file
          /\ metadata_file = persisted.metadata_file
    /\ last_call = Outcome("init", "", FALSE, FALSE, 0)
    /\ reset_pending = FALSE
    /\ run = [status |-> "idle"]
    /\ SelectIdle
    /\ MergeIdle
    /\ ConflictIdle
    /\ ChunkerIdle

ExtractFromPdf(q, strategy, fail_at, reply, embedder_ok, renders, json_data) ==
    LET r == extract_from_pdf(pdf_path, q, strategy, fail_at, reply,
                              embedder_ok, renders, json_data)
    IN  /\ extracted.outcome = "ready"
        /\ fail_at \in FailPoints(pdf_path)
        /\ fail_at > 0 => reply = "ok"
        /\ index' = r.state.index
        /\ metadata' = r.state.metadata
        /\ index_file' = r.state.index_file
        /\ metadata_file' = r.state.metadata_file
        /\ last_call' = Outcome("extract_from_pdf", pdf_path, FALSE, FALSE, 0)
        /\ reset_pending' = (reset_pending /\ ~r.built)
        /\ extracted' = r.extracted
        /\ UNCHANGED <<pdf_path, run>>
        /\ UNCHANGED <<selVars, mergeVars, confVars, chunkVars>>

NextExtract ==
    \E q \in QueryVectors : \E strategy \in Strategies :
       \E fail_at \in FailPoints(pdf_path) : \E reply \in EmbedderReplies :
          \E embedder_ok \in BOOLEAN : \E renders \in RenderSets :
             \E json_data \in Responses :
                ExtractFromPdf(q, strategy, fail_at, reply, embedder_ok,
                               renders, json_data)

SpecExtract == InitExtract /\ [][NextExtract]_vars

(***************************************************************************)
(* Properties of extract_from_pdf                                          *)
(***************************************************************************)
\* C13: extract_from_pdf never ends in an exception: whatever the document,
\* the embedder, the renderer and the vision model do, it returns a record
\* or None.
C13_NoExceptionLeavesExtract ==
    extracted.outcome # "exception"

\* C30: every page number in source_pages of a record written by
\* extract_from_pdf is a page of the document, between 1 and its page
\* count, whose image was rendered and passed to the model.
C30_SourcePagesWereRendered ==
    extracted.outcome = "record"
        => \A i \in 1..Len(extracted.source_pages) :
              LET page_num == extracted.source_pages[i]
              IN  /\ page_num >= 1
                  /\ page_num <= get_page_count(pdf_path)
                  /\ page_num \in Range(extracted.image_pages)

(***************************************************************************)
(* run_single_extraction (main.py and run_extraction.py)                   *)
(***************************************************************************)
SourceTypes == {"prospectus", "press_release"}

\* what extract_from_pdf / extract_from_html does for a document: it
\* returns the path of the record it wrote, returns None, or raises
ExtractionResults == {"record", "None", "exception"}

\* an entry of pdf_matches: the file is in PDF_DIR, or download_pdf fetches
\* it, or download_pdf fails
PdfInfo ==
    [ source_type : SourceTypes,
      fetch : {"local", "downloaded", "download_fails"},
      result : ExtractionResults ]

\* an entry of html_matches
HtmlInfo == [source_type : SourceTypes, result : ExtractionResults]

\* the documents of one list whose source_type is doc_type, in list order
MatchesOfType(kind, matches, doc_type) ==
    SelectSeq([i \in 1..Len(matches) |-> [kind |-> kind, i |-> i]],
              LAMBDA e : matches[e.i].source_type = doc_type)

\* the order in which the nested loops visit the documents: for each
\* doc_type of source_types, its PDFs, then its HTML documents
Schedule(source_types, pdf_matches, html_matches) ==
    Flatten([t \in 1..Len(source_types) |->
                MatchesOfType("pdf", pdf_matches, source_types[t])
                   \o MatchesOfType("html", html_matches, source_types[t])])

RunSchedule == Schedule(run.source_types, run.pdf_matches, run.html_matches)

\* the call of extract_from_pdf / extract_from_html: main.py passes the
\* keyword issue_id, which neither function accepts (TypeError)
ExtractCall(caller, info) ==
    IF caller = "main" THEN "exception" ELSE info.result

InitRun ==
    /\ \E caller \in {"main", "run_extraction"} :
       \E source_types \in {<<"prospectus">>, <<"prospectus", "press_release">>,
                             <<"press_release", "prospectus">>} :
       \E pdf_matches \in UNION {[1..n -> PdfInfo] : n \in 0..MaxDocs} :
       \E html_matches \in UNION {[1..n -> HtmlInfo] : n \in 0..1} :
          /\ caller = "run_extraction"
                => \A i \in 1..Len(pdf_matches) : pdf_matches[i].fetch = "local"
          /\ run = [ status |-> "running", caller |-> caller,
                     source_types |-> source_types,
                     pdf_matches |-> pdf_matches,
                     html_matches |-> html_matches,
                     position |-> 1, attempted |-> <<>>,
                     temp_output_files |-> <<>>, data_found |-> FALSE ]
    /\ pdf_path = ""
    /\ extracted = [outcome |-> "idle"]
    /\ SelectIdle
    /\ MergeIdle
    /\ ConflictIdle
    /\ IndexerIdle
    /\ ChunkerIdle

\* one iteration of the document loops
VisitDocument ==
    /\ run.status = "running"
    /\ ~run.data_found
    /\ run.position <= Len(RunSchedule)
    /\ LET e    == RunSchedule[run.position]
           info == IF e.kind = "pdf" THEN run.pdf_matches[e.i]
                   ELSE run.html_matches[e.i]
           result_path == ExtractCall(run.caller, info)
       IN  IF /\ e.kind = "pdf"
              /\ run.caller = "main"
              /\ info.fetch = "download_fails"
           THEN \* main.py lines 88-97: continue
                run' = [run EXCEPT !.position = @ + 1]
           ELSE IF result_path = "exception"
           THEN run' = [run EXCEPT !.attempted = Append(@, e),
                                   !.status = "exception"]
           ELSE IF result_path = "record"
           THEN run' = [run EXCEPT !.attempted = Append(@, e),
                                   !.temp_output_files = Append(@, e),
                                   !.data_found = TRUE]
           ELSE run' = [run EXCEPT !.attempted = Append(@, e),
                                   !.position = @ + 1]
    /\ UNCHANGED <<pdf_path, extracted>>
    /\ UNCHANGED <<selVars, mergeVars, confVars, idxVars, chunkVars>>

\* Step 4: merge the temp files, or report that there is nothing to merge
FinishRun ==
    /\ run.status = "running"
    /\ run.data_found \/ run.position > Len(RunSchedule)
    /\ run' = [run EXCEPT !.status = IF run.temp_output_files # <<>>
                                     THEN "merged" ELSE "no_results"]
    /\ UNCHANGED <<pdf_path, extracted>>
    /\ UNCHANGED <<selVars, mergeVars, confVars, idxVars, chunkVars>>

NextRun == VisitDocument \/ FinishRun

SpecRun == InitRun /\ [][NextRun]_vars

(***************************************************************************)
(* Properties of run_single_extraction                                     *)
(***************************************************************************)
\* the priority of a scheduled document: the rank of its source type in
\* source_types, PDFs before HTML documents, then the order of its list
TypeRank(e) ==
    LET doc_type == IF e.kind = "pdf" THEN run.pdf_matches[e.i].source_type
                    ELSE run.html_matches[e.i].source_type
    IN  CHOOSE t \in 1..Len(run.source_types) : run.source_types[t] = doc_type

Precedes(d, e) ==
    \/ TypeRank(d) < TypeRank(e)
    \/ /\ TypeRank(d) = TypeRank(e)
       /\ \/ d.kind = "pdf" /\ e.kind = "html"
          \/ d.kind = e.kind /\ d.i < e.i

\* a document the run can try: its file is there or can be downloaded
CanBeTried(e) ==
    e.kind = "pdf" =>
        ~(run.caller = "main" /\ run.pdf_matches[e.i].fetch = "download_fails")

Tried(e) == \E i \in 1..Len(run.attempted) : run.attempted[i] = e

\* C24: for one field the documents are tried one at a time in source-type
\* priority order, PDFs before HTML documents within a type; a document
\* whose download fails or whose extraction gives nothing is passed over
\* and the run goes on to the next one without aborting; once a document
\* yields a record no further document is tried, so at most one record is
\* merged.
C24_DocumentsTriedInOrderUntilRecord ==
    run.status # "idle" =>
        /\ \A i, j \in 1..Len(run.attempted) :
              i < j => Precedes(run.attempted[i], run.attempted[j])
        /\ Len(run.temp_output_files) <= 1
        /\ run.temp_output_files # <<>>
              => run.temp_output_files[1] = run.attempted[Len(run.attempted)]
        /\ run.status # "exception"
        /\ run.status \in {"merged", "no_results"}
              => \/ run.status = "merged" /\ Len(run.temp_output_files) = 1
                 \/ /\ run.temp_output_files = <<>>
                    /\ \A n \in 1..Len(RunSchedule) :
                          CanBeTried(RunSchedule[n]) => Tried(RunSchedule[n])

(***************************************************************************)
(* merge_and_finalize_outputs and the final output file                    *)
(***************************************************************************)
\* JSON / Python values: a string, an integer, a list
JStr(s) == [type |-> "str", s |-> s]

JInt(n) == [type |-> "int", n |-> n]

JList(items) == [type |-> "list", items |-> items]

\* the documents of the issue, in the order of sorted(all_data.keys())
DocNames == <<"a.pdf", "b.pdf">>

\* DocumentEntry.model_fields.keys(), in declaration order
ModelFields ==
    << "issue_id", "id", "investors", "important_dates", "offering_terms",
       "offering_outcome" >>

\* the extra fields of a DocumentEntry, in the order of sorted()
ExtraKeysUnsorted == <<"isin_units", "general_info">>

ExtraKeys == <<"general_info", "isin_units">>

\* DocumentEntry(issue_id=issue_id, id=doc_id)
DocumentEntry(issue_id, id) ==
    [key \in Range(ModelFields) \cup Range(ExtraKeys) |->
        CASE key = "issue_id" -> JStr(issue_id)
          [] key = "id"       -> id
          [] OTHER            -> None]

\* FinalOutput.model_validate on an entry of the file: record_date is
\* Optional[str]
IsValidEntry(entry) ==
    entry["important_dates"].type # "none"
        => entry["important_dates"].record_date.type \in {"none", "str"}

\* lines 241-251: all_data as loaded from the existing file, {} when the
\* file is absent or does not validate
LoadFinalOutput(file) ==
    IF /\ file.exists
       /\ \A i \in 1..Len(file.content) : IsValidEntry(file.content[i].entry)
    THEN [doc_name \in Range(DocNames) |->
             IF \E i \in 1..Len(file.content) :
                    file.content[i].doc_name = doc_name
             THEN (CHOOSE d \in Range(file.content) :
                       d.doc_name = doc_name).entry
             ELSE None]
    ELSE [doc_name \in Range(DocNames) |-> None]

\* what the temp record holds under extraction_field, by field:
\* investors with numeric or string amounts, a record_date that is a string
\* or a number, offering_terms that OfferingTerms accepts or rejects, the
\* extra fields, or nothing
FieldValues(extraction_field) ==
    CASE extraction_field = "investors" ->
            { JList(<<[name |-> NAME_ACME, level |-> 1,
                       amount_in_cash |-> Float(1000500),
                       amount_in_percentage |-> Float(12500)]>>),
              JList(<<[name |-> NAME_ACME, level |-> 1,
                       amount_in_cash |-> Str3(1000, 500),
                       amount_in_percentage |-> FloatStr(12, <<5>>)]>>) }
      [] extraction_field = "record_date" -> {JStr("2024-01-10"), JInt(20240110)}
      [] extraction_field = "offering_terms" ->
            { [type |-> "dict", shares_required |-> JInt(10)],
              [type |-> "dict", shares_required |-> JStr("ten")] }
      [] OTHER -> {JStr("x")}

\* a temp file: a record {doc_id, source_document, field}, a record
\* without the field, or a file that cannot be read
TempFiles(extraction_field) ==
    [ readable : {TRUE}, source_document : Range(DocNames),
      doc_id : {None, JStr("d1")}, value : FieldValues(extraction_field) ]
    \cup { [ readable |-> TRUE, source_document |-> DocNames[1],
             doc_id |-> JStr("d1"), value |-> None ],
           [ readable |-> FALSE, source_document |-> "", doc_id |-> None,
             value |-> None ] }

\* lines 254-330 for one temp file
MergeTempFile(all_data, extraction_field, temp_result) ==
    IF \/ ~temp_result.readable
       \/ temp_result.source_document = ""
       \/ temp_result.value.type = "none"
    THEN all_data
    ELSE LET doc_name  == temp_result.source_document
             created   == IF all_data[doc_name] = None
                          THEN DocumentEntry("issue", temp_result.doc_id)
                          ELSE all_data[doc_name]
             doc_entry == IF /\ created["id"].type = "none"
                             /\ temp_result.doc_id.type # "none"
                          THEN [created EXCEPT !["id"] = temp_result.doc_id]
                          ELSE created
             field_value == temp_result.value
             updated ==
                CASE extraction_field = "investors" ->
                        [doc_entry EXCEPT !["investors"] =
                            JList(DedupInvestors(field_value.items))]
                  [] extraction_field \in Range(ModelFields) ->
                        \* OfferingTerms.model_validate(field_value)
                        IF field_value.shares_required.type = "int"
                        THEN [doc_entry EXCEPT ![extraction_field] =
                                [field_value EXCEPT !.type = "model"]]
                        ELSE doc_entry
                  [] extraction_field = "record_date" ->
                        \* a field of ImportantDates, set without validation
                        [doc_entry EXCEPT !["important_dates"] =
                            [type |-> "model", record_date |-> field_value]]
                  [] OTHER ->
                        [doc_entry EXCEPT ![extraction_field] = field_value]
         IN  [all_data EXCEPT ![doc_name] = updated]

RECURSIVE MergeTempFiles(_, _, _)
MergeTempFiles(all_data, extraction_field, temp_files) ==
    IF temp_files = <<>> THEN all_data
    ELSE MergeTempFiles(
             MergeTempFile(all_data, extraction_field, Head(temp_files)),
             extraction_field, Tail(temp_files))

\* lines 337-364: the keys of ordered_doc, in the order they are inserted
OrderedKeys(doc_entry) ==
    <<"issue_id", "id">>
       \o SelectSeq(ModelFields,
                    LAMBDA field_name : /\ field_name \notin {"issue_id", "id"}
                                        /\ doc_entry[field_name].type # "none")
       \o SelectSeq(ExtraKeys, LAMBDA key : doc_entry[key].type # "none")

\* lines 333-368: the content written to final_output_path
SaveFinalOutput(all_data) ==
    LET present == SelectSeq(DocNames,
                             LAMBDA doc_name : all_data[doc_name] # None)
    IN  [i \in 1..Len(present) |->
            [ doc_name |-> present[i],
              keys     |-> OrderedKeys(all_data[present[i]]),
              entry    |-> all_data[present[i]] ]]

\* merge_and_finalize_outputs: the final output file it leaves
merge_and_finalize_outputs(file, extraction_field, temp_files) ==
    IF temp_files = <<>> THEN file     \* lines 237-239
    ELSE [ exists  |-> TRUE,
           content |-> SaveFinalOutput(
                           MergeTempFiles(LoadFinalOutput(file),
                                          extraction_field, temp_files)) ]

InitFinal ==
    /\ merge_input = [calls |-> 0]
    /\ merged = <<>>
    /\ merge_pc = "ready"
    /\ final_output = [exists |-> FALSE, content |-> <<>>]
    /\ SelectIdle
    /\ ConflictIdle
    /\ IndexerIdle
    /\ ChunkerIdle
    /\ ExtractIdle

\* one call of merge_and_finalize_outputs on the issue's final output path
MergeIntoFinalOutput(extraction_field, temp_files) ==
    /\ merge_input.calls < MaxMerges
    /\ final_output' =
          merge_and_finalize_outputs(final_output, extraction_field, temp_files)
    /\ merge_input' = [ extraction_field |-> extraction_field,
                        temp_files |-> temp_files,
                        calls |-> merge_input.calls + 1 ]
    /\ merge_pc' = "merge_and_finalize_outputs"
    /\ UNCHANGED merged
    /\ UNCHANGED <<selVars, confVars, idxVars, chunkVars, extractVars>>

NextFinal ==
    \E extraction_field \in {"investors", "record_date", "offering_terms",
                              "isin_units", "general_info"} :
       \E temp_files \in UNION {[1..n -> TempFiles(extraction_field)] :
                                   n \in 0..1} :
          MergeIntoFinalOutput(extraction_field, temp_files)

SpecFinal == InitFinal /\ [][NextFinal]_vars

(***************************************************************************)
(* Properties of merge_and_finalize_outputs                                *)
(***************************************************************************)
\* the object of a document in the final output file, None when absent
EntryOf(file, doc_name) ==
    IF \E i \in 1..Len(file.content) : file.content[i].doc_name = doc_name
    THEN (CHOOSE d \in Range(file.content) : d.doc_name = doc_name).entry
    ELSE None

\* the temp records of the last call that carry a value for its field
MergedRecords ==
    SelectSeq(merge_input.temp_files,
              LAMBDA temp : temp.readable /\ temp.value # None)

\* the number a decimal text of up to three decimals denotes, in thousandths
TextThousandths(amount) ==
    LET digits == amount.digits
    IN  amount.whole * 1000
          + (IF Len(digits) >= 1 THEN digits[1] * 100 ELSE 0)
          + (IF Len(digits) >= 2 THEN digits[2] * 10 ELSE 0)
          + (IF Len(digits) >= 3 THEN digits[3] ELSE 0)

IsFormatted(amount) == amount.type \in {"str", "none"}

\* C22: amount formatting is idempotent: a numeric amount_in_cash is
\* written as a string with exactly three decimals and a numeric
\* amount_in_percentage as its string form; an amount that is already a
\* string is written unchanged, and formatting a written amount again
\* returns it unchanged.
C22_AmountFormattingIdempotent ==
    /\ \A i \in 1..Len(final_output.content) :
          LET investors == final_output.content[i].entry["investors"]
          IN  investors # None =>
                \A j \in 1..Len(investors.items) :
                    /\ IsFormatted(investors.items[j].amount_in_cash)
                    /\ IsFormatted(investors.items[j].amount_in_percentage)
                    /\ FormatCash(investors.items[j].amount_in_cash)
                          = investors.items[j].amount_in_cash
                    /\ FormatPercentage(investors.items[j].amount_in_percentage)
                          = investors.items[j].amount_in_percentage
    /\ (merge_input.calls > 0 /\ merge_input.extraction_field = "investors")
          => \A n \in 1..Len(MergedRecords) :
                LET given   == MergedRecords[n].value.items[1]
                    written == EntryOf(final_output,
                                       MergedRecords[n].source_document
                                      )["investors"].items[1]
                IN  /\ written.amount_in_cash =
                          IF given.amount_in_cash.type = "float"
                          THEN [ type |-> "str",
                                 whole |-> given.amount_in_cash.thousandths
                                              \div 1000,
                                 frac |-> given.amount_in_cash.thousandths
                                              % 1000 ]
                          ELSE given.amount_in_cash
                    /\ given.amount_in_percentage.type = "float"
                          => /\ written.amount_in_percentage.type = "str"
                             /\ TextThousandths(written.amount_in_percentage)
                                   = given.amount_in_percentage.thousandths
                    /\ given.amount_in_percentage.type # "float"
                          => written.amount_in_percentage
                                = given.amount_in_percentage

\* investors whose amounts are already strings are merged into a file that
\* has been written before
C22_Witness ==
    /\ merge_input.calls >= 2
    /\ merge_input.extraction_field = "investors"
    /\ Len(MergedRecords) = 1
    /\ MergedRecords[1].value.items[1].amount_in_cash.type = "str"
    /\ EntryOf(final_output, MergedRecords[1].source_document)["investors"]
          = MergedRecords[1].value

\* the position of a key in an order of keys
KeyRank(order, key) == CHOOSE n \in 1..Len(order) : order[n] = key

\* the keys are issue_id, id and then the document's fields that have a
\* value, each once, in the given order
KeysFollow(doc, order) ==
    /\ Len(doc.keys) >= 2
    /\ doc.keys[1] = "issue_id"
    /\ doc.keys[2] = "id"
    /\ \A i, j \in 3..Len(doc.keys) :
          i < j => KeyRank(order, doc.keys[i]) < KeyRank(order, doc.keys[j])
    /\ Range(doc.keys) =
          {"issue_id", "id"} \cup {key \in Range(order) : doc.entry[key] # None}

\* C23 as stated: every document object lists issue_id and id first and
\* then all of its remaining fields in alphabetical order of key.
C23_KeysAlphabetical ==
    \A i \in 1..Len(final_output.content) :
        KeysFollow(final_output.content[i],
                   << "general_info", "important_dates", "investors",
                      "isin_units", "offering_outcome", "offering_terms" >>)

\* C23, amended: every document object lists issue_id and id first, then
\* the fields DocumentEntry declares, in the order of their declaration
\* (investors, important_dates, offering_terms, offering_outcome), then
\* its extra fields in alphabetical order of key, whatever the order in
\* which the fields were merged.
C23_KeysInDeclarationOrder ==
    \A i \in 1..Len(final_output.content) :
        KeysFollow(final_output.content[i],
                   << "investors", "important_dates", "offering_terms",
                      "offering_outcome", "general_info", "isin_units" >>)

\* investors merged last into a document that has both extra fields
C23_Witness ==
    /\ merge_input.calls > 0
    /\ merge_input.extraction_field = "investors"
    /\ \E i \in 1..Len(final_output.content) :
          final_output.content[i].keys
             = <<"issue_id", "id", "investors", "general_info", "isin_units">>

\* C29: a merge for field F changes only field F (and a missing id) of the
\* documents named in the temp records: every document that was in the
\* file is in it afterwards with every other field unchanged, and with an
\* empty temp-file list the file stays as it was.
C29_MergeChangesOnlyField ==
    [][merge_input'.calls = merge_input.calls + 1 =>
         LET temp_files == merge_input'.temp_files
             named == {temp_files[n].source_document :
                          n \in 1..Len(temp_files)}
             field == IF merge_input'.extraction_field = "record_date"
                      THEN "important_dates"
                      ELSE merge_input'.extraction_field
         IN  /\ temp_files = <<>> => final_output' = final_output
             /\ \A doc_name \in Range(DocNames) :
                   LET before == EntryOf(final_output, doc_name)
                       after  == EntryOf(final_output', doc_name)
                   IN  before # None =>
                         /\ after # None
                         /\ \A key \in DOMAIN before :
                               \/ after[key] = before[key]
                               \/ /\ doc_name \in named
                                  /\ \/ key = field
                                     \/ key = "id" /\ before["id"] = None
    ]_vars

====
